---- MODULE Spec2Model ----
(***************************************************************************)
(* Vern engine bootstrap skeleton.                                         *)
(*                                                                         *)
(*   Core.h        platform detection and the VERN_API visibility macro,   *)
(*                 modelled as the preprocessor evaluating the two         *)
(*                 conditional blocks over a build configuration.          *)
(*   Log.h         the two static logger handles, their getters and the    *)
(*                 ten log macros.                                         *)
(*   Entrypoint.h  main: Log::Init, two log lines, CreateApplication,      *)
(*                 Run, delete, return 0.                                  *)
(*   SandboxApp.cpp  the client factory and the Sandbox subclass.          *)
(*                                                                         *)
(* Log.cpp and Application.cpp (Log::Init, Application::Run, the           *)
(* Application constructor and destructor) are not part of the sources;    *)
(* LogInit, RunLoop and RunReturn model them from the specification text.  *)
(***************************************************************************)
EXTENDS Integers, Sequences, FiniteSets, TLC

\* ------------------------------------------------------------------ bounds
\* heap addresses 1..MaxAddr
MaxAddr == 4
\* TargetConditionals.h may give TARGET_OS_MAC any value in 0..MaxTargetOsMac
MaxTargetOsMac == 2
\* iterations of a non-returning Run() that are told apart
MaxRunIters == 2
\* number of macro invocations a client of the Log API makes
MaxLog == 2

\* --------------------------------------------------------------- constants
\* the empty std::shared_ptr / the null pointer
Null == 0

Addrs == 1..MaxAddr

\* the compiler-predefined macros Core.h tests, and the build-system one
PlatformMacros == {"_WIN32", "_WIN64", "__APPLE__", "__MACH__", "__linux__"}

BuildMacros == {"VERN_BUILD_DLL"}

VernPlatforms == {"VERN_PLATFORM_WINDOWS", "VERN_PLATFORM_MACOS", "VERN_PLATFORM_LINUX"}

NoError == "none"

\* the messages main logs; clients of the Log API use the same two
Msgs == {"Log Initialized!", "Hello World!"}

VARIABLES
    predef,         \* macros defined before Core.h is read
    targetOsMac,    \* <<>> if TARGET_OS_MAC is undefined, <<v>> if it is v
    phase,          \* "platform", "error", "api", "compiled", "failed"
    defined,        \* macros defined by Core.h so far
    vernApi,        \* replacement text of VERN_API once it is defined
    ppError,        \* text of the #error that was hit, or NoError
    pc,             \* position of main (or "client" for a library client)
    s_CoreLogger,   \* Log::s_CoreLogger
    s_ClientLogger, \* Log::s_ClientLogger
    heap,           \* address -> object
    app,            \* main's local variable app
    stdout,         \* lines written to std::cout
    exitStatus,     \* <<>> while running, <<n>> after main returned n
    runMode,        \* whether Application::Run returns: "returns"/"diverges"
    runIters,       \* iterations a diverging Run has made
    crashed,        \* the process was killed by a null dereference
    ub,             \* a null logger handle has been dereferenced
    lastCall,       \* history: <<macro, argument>> of the last macro evaluated
    trace           \* history: the operations executed so far

buildVars == <<predef, targetOsMac, phase, defined, vernApi, ppError>>

logVars == <<s_CoreLogger, s_ClientLogger, crashed, ub, lastCall>>

mainVars == <<pc, app, stdout, exitStatus, runMode, runIters>>

vars == <<predef, targetOsMac, phase, defined, vernApi, ppError, pc, s_CoreLogger, s_ClientLogger, heap, app, stdout, exitStatus, runMode, runIters, crashed, ub, lastCall, trace>>

\* ============================================================== Core.h
\* value of an identifier inside #if: an undefined one evaluates to 0
PPValue(v) ==
    IF v = <<>> THEN 0 ELSE v[1]

\* variant: the __linux__ test placed before the Apple test
PlatformDetect_LinuxFirst(p, tom) ==
    IF "_WIN32" \in p
    THEN IF "_WIN64" \in p
         THEN [defs |-> {"VERN_PLATFORM_WINDOWS"}, error |-> NoError]
         ELSE [defs |-> {}, error |-> "x86 Builds are not supported!"]
    ELSE IF "__linux__" \in p
    THEN [defs |-> {"VERN_PLATFORM_LINUX"}, error |-> NoError]
    ELSE IF "__APPLE__" \in p \/ "__MACH__" \in p
    THEN IF PPValue(tom) = 1
         THEN [defs |-> {"VERN_PLATFORM_MACOS"}, error |-> NoError]
         ELSE [defs |-> {}, error |-> "Unknown Apple platform!"]
    ELSE [defs |-> {}, error |-> "Unknown platform!"]

\* variant: the nested _WIN64 test dropped
PlatformDetect_AllowX86(p, tom) ==
    IF "_WIN32" \in p
    THEN [defs |-> {"VERN_PLATFORM_WINDOWS"}, error |-> NoError]
    ELSE IF "__APPLE__" \in p \/ "__MACH__" \in p
    THEN IF PPValue(tom) = 1
         THEN [defs |-> {"VERN_PLATFORM_MACOS"}, error |-> NoError]
         ELSE [defs |-> {}, error |-> "Unknown Apple platform!"]
    ELSE IF "__linux__" \in p
    THEN [defs |-> {"VERN_PLATFORM_LINUX"}, error |-> NoError]
    ELSE [defs |-> {}, error |-> "Unknown platform!"]

\* Core.h lines 4-22 over the predefined macros p and TARGET_OS_MAC tom
PlatformDetect(p, tom) ==
    IF "_WIN32" \in p
    THEN IF "_WIN64" \in p
         THEN [defs |-> {"VERN_PLATFORM_WINDOWS"}, error |-> NoError]
         ELSE [defs |-> {}, error |-> "x86 Builds are not supported!"]
    ELSE IF "__APPLE__" \in p \/ "__MACH__" \in p
    THEN IF PPValue(tom) = 1
         THEN [defs |-> {"VERN_PLATFORM_MACOS"}, error |-> NoError]
         ELSE [defs |-> {}, error |-> "Unknown Apple platform!"]
    ELSE IF "__linux__" \in p
    THEN [defs |-> {"VERN_PLATFORM_LINUX"}, error |-> NoError]
    ELSE [defs |-> {}, error |-> "Unknown platform!"]

\* variant: the outer VERN_PLATFORM_WINDOWS test dropped
ApiExpand_NoPlatformTest(d) ==
    IF "VERN_BUILD_DLL" \in d
    THEN "__declspec(dllexport)"
    ELSE IF "VERN_PLATFORM_WINDOWS" \in d
    THEN "__declspec(dllimport)"
    ELSE ""

\* Core.h lines 25-33 over the macros d defined at that point
ApiExpand(d) ==
    IF "VERN_PLATFORM_WINDOWS" \in d
    THEN IF "VERN_BUILD_DLL" \in d
         THEN "__declspec(dllexport)"
         ELSE "__declspec(dllimport)"
    ELSE ""

\* the preprocessor evaluates the platform block
DetectPlatform ==
    /\ phase = "platform"
    /\ LET r == PlatformDetect(predef, targetOsMac) IN
        /\ defined' = defined \cup r.defs
        /\ ppError' = r.error
        /\ phase' = IF r.error = NoError THEN "api" ELSE "error"
    /\ UNCHANGED <<predef, targetOsMac, vernApi>>
    /\ UNCHANGED <<logVars, mainVars, heap, trace>>

\* the preprocessor evaluates the export/import block
DefineApi ==
    /\ phase = "api"
    /\ vernApi' = ApiExpand(predef \cup defined)
    /\ defined' = defined \cup {"VERN_API"}
    /\ phase' = "compiled"
    /\ UNCHANGED <<predef, targetOsMac, ppError>>
    /\ UNCHANGED <<logVars, mainVars, heap, trace>>

\* a compiler that stops at the first #error
ErrorAbort ==
    /\ phase = "error"
    /\ phase' = "failed"
    /\ UNCHANGED <<predef, targetOsMac, defined, vernApi, ppError>>
    /\ UNCHANGED <<logVars, mainVars, heap, trace>>

\* a compiler that reports #error and keeps preprocessing the file
ErrorContinue ==
    /\ phase = "error"
    /\ vernApi' = ApiExpand(predef \cup defined)
    /\ defined' = defined \cup {"VERN_API"}
    /\ phase' = "failed"
    /\ UNCHANGED <<predef, targetOsMac, ppError>>
    /\ UNCHANGED <<logVars, mainVars, heap, trace>>

\* ============================================================== heap
FreeCell == [kind |-> "free"]

LoggerObj(n) == [kind |-> "logger", name |-> n, out |-> <<>>]

SandboxObj == [kind |-> "Sandbox", state |-> "live", runs |-> 0, deletes |-> 0]

\* class Sandbox : public Vern::Application
BaseOf(k) ==
    IF k = "Sandbox" THEN "Application" ELSE "none"

FreeAddrs == {a \in Addrs : heap[a].kind = "free"}

\* ============================================================== Log.h
\* Log.h line 14
getCoreLogger ==
    s_CoreLogger

\* variant: the client getter returning the core member
getClientLogger_Core ==
    s_CoreLogger

\* Log.h line 15
getClientLogger ==
    s_ClientLogger

\* the handle a macro's expansion obtains
Getter(g) ==
    IF g = "getCoreLogger" THEN getCoreLogger ELSE getClientLogger

\* variant: VERN_ERROR expanding to ->warn
MacroTable_ErrorAsWarn ==
    [ VERN_CORE_TRACE |-> [getter |-> "getCoreLogger",   method |-> "trace"],
      VERN_CORE_INFO  |-> [getter |-> "getCoreLogger",   method |-> "info"],
      VERN_CORE_WARN  |-> [getter |-> "getCoreLogger",   method |-> "warn"],
      VERN_CORE_ERROR |-> [getter |-> "getCoreLogger",   method |-> "error"],
      VERN_CORE_FATAL |-> [getter |-> "getCoreLogger",   method |-> "fatal"],
      VERN_TRACE      |-> [getter |-> "getClientLogger", method |-> "trace"],
      VERN_INFO       |-> [getter |-> "getClientLogger", method |-> "info"],
      VERN_WARN       |-> [getter |-> "getClientLogger", method |-> "warn"],
      VERN_ERROR      |-> [getter |-> "getClientLogger", method |-> "warn"],
      VERN_FATAL      |-> [getter |-> "getClientLogger", method |-> "fatal"] ]

\* Log.h lines 25-36: the expansion of each macro
MacroTable ==
    [ VERN_CORE_TRACE |-> [getter |-> "getCoreLogger",   method |-> "trace"],
      VERN_CORE_INFO  |-> [getter |-> "getCoreLogger",   method |-> "info"],
      VERN_CORE_WARN  |-> [getter |-> "getCoreLogger",   method |-> "warn"],
      VERN_CORE_ERROR |-> [getter |-> "getCoreLogger",   method |-> "error"],
      VERN_CORE_FATAL |-> [getter |-> "getCoreLogger",   method |-> "fatal"],
      VERN_TRACE      |-> [getter |-> "getClientLogger", method |-> "trace"],
      VERN_INFO       |-> [getter |-> "getClientLogger", method |-> "info"],
      VERN_WARN       |-> [getter |-> "getClientLogger", method |-> "warn"],
      VERN_ERROR      |-> [getter |-> "getClientLogger", method |-> "error"],
      VERN_FATAL      |-> [getter |-> "getClientLogger", method |-> "fatal"] ]

Macros == DOMAIN MacroTable

\* Log::Init (Log.cpp): creates the two named loggers and stores their
\* handles in the two static members
LogInit ==
    /\ \E c \in FreeAddrs : \E k \in FreeAddrs \ {c} :
        /\ heap' = [heap EXCEPT ![c] = LoggerObj("core"), ![k] = LoggerObj("client")]
        /\ s_CoreLogger' = c
        /\ s_ClientLogger' = k
    /\ UNCHANGED <<crashed, ub, lastCall>>

\* evaluation of macro m with argument msg: GETTER()->METHOD(msg).
\* Dereferencing an empty shared_ptr is undefined: the process either dies
\* or carries on having written nothing.
LogCall(m, msg) ==
    LET e == MacroTable[m]
        h == Getter(e.getter)
    IN  /\ trace' = Append(trace, m)
        /\ lastCall' = <<m, msg>>
        /\ IF h = Null
           THEN /\ ub' = TRUE
                /\ crashed' \in BOOLEAN
                /\ UNCHANGED heap
           ELSE /\ heap' = [heap EXCEPT ![h].out = Append(@, [level |-> e.method, msg |-> msg])]
                /\ UNCHANGED <<crashed, ub>>
        /\ UNCHANGED <<s_CoreLogger, s_ClientLogger>>

\* ======================================================= SandboxApp.cpp
\* variant: the factory handing out storage that is already in use
CreateApplication_Reuse(a) ==
    /\ a \in Addrs
    /\ heap' = [heap EXCEPT ![a] = SandboxObj]
    /\ stdout' = Append(stdout, "Sandbox Application Created!")

\* Vern::CreateApplication: new Sandbox() placed at address a
CreateApplication(a) ==
    /\ a \in FreeAddrs
    /\ heap' = [heap EXCEPT ![a] = SandboxObj]
    /\ stdout' = Append(stdout, "Sandbox Application Created!")

\* ========================================================= Entrypoint.h
\* a binary exists and the process is alive
Running ==
    phase = "compiled" /\ ~crashed

\* variant: main without the call of Log::Init
MainLogInit_NoInit ==
    /\ Running /\ pc = "init"
    /\ pc' = "core_warn"
    /\ UNCHANGED <<app, stdout, exitStatus, runMode, runIters, heap, trace>>
    /\ UNCHANGED <<buildVars, logVars>>

\* line 11
MainLogInit ==
    /\ Running /\ pc = "init"
    /\ LogInit
    /\ trace' = Append(trace, "Log::Init")
    /\ pc' = "core_warn"
    /\ UNCHANGED <<app, stdout, exitStatus, runMode, runIters>>
    /\ UNCHANGED buildVars

\* line 12
MainCoreWarn ==
    /\ Running /\ pc = "core_warn"
    /\ LogCall("VERN_CORE_WARN", "Log Initialized!")
    /\ pc' = "client_info"
    /\ UNCHANGED <<app, stdout, exitStatus, runMode, runIters>>
    /\ UNCHANGED buildVars

\* line 13
MainClientInfo ==
    /\ Running /\ pc = "client_info"
    /\ LogCall("VERN_INFO", "Hello World!")
    /\ pc' = "create"
    /\ UNCHANGED <<app, stdout, exitStatus, runMode, runIters>>
    /\ UNCHANGED buildVars

\* variant: main going from construction straight to delete
MainCreate_SkipRun ==
    /\ Running /\ pc = "create"
    /\ \E a \in Addrs :
        /\ CreateApplication(a)
        /\ app' = a
    /\ trace' = Append(trace, "CreateApplication")
    /\ pc' = "delete"
    /\ UNCHANGED <<exitStatus, runMode, runIters>>
    /\ UNCHANGED <<buildVars, logVars>>

\* line 15
MainCreate ==
    /\ Running /\ pc = "create"
    /\ \E a \in Addrs :
        /\ CreateApplication(a)
        /\ app' = a
    /\ trace' = Append(trace, "CreateApplication")
    /\ pc' = "run"
    /\ UNCHANGED <<exitStatus, runMode, runIters>>
    /\ UNCHANGED <<buildVars, logVars>>

\* line 15 when operator new throws std::bad_alloc: nothing catches it
MainCreateThrows ==
    /\ Running /\ pc = "create"
    /\ trace' = Append(trace, "CreateApplication")
    /\ pc' = "aborted"
    /\ UNCHANGED <<app, stdout, exitStatus, runMode, runIters, heap>>
    /\ UNCHANGED <<buildVars, logVars>>

\* line 16: the call app->Run()
MainRun ==
    /\ Running /\ pc = "run"
    /\ heap' = [heap EXCEPT ![app].runs = @ + 1]
    /\ trace' = Append(trace, "Application::Run")
    /\ pc' = "in_run"
    /\ UNCHANGED <<app, stdout, exitStatus, runMode, runIters>>
    /\ UNCHANGED <<buildVars, logVars>>

\* Application::Run (Application.cpp): a body that never returns
RunLoop ==
    /\ Running /\ pc = "in_run"
    /\ runMode = "diverges"
    /\ runIters < MaxRunIters
    /\ runIters' = runIters + 1
    /\ UNCHANGED <<pc, app, stdout, exitStatus, runMode, heap, trace>>
    /\ UNCHANGED <<buildVars, logVars>>

\* Application::Run (Application.cpp): a body that returns
RunReturn ==
    /\ Running /\ pc = "in_run"
    /\ runMode = "returns"
    /\ pc' = "delete"
    /\ UNCHANGED <<app, stdout, exitStatus, runMode, runIters, heap, trace>>
    /\ UNCHANGED <<buildVars, logVars>>

\* variant: main without the delete
MainDelete_Leak ==
    /\ Running /\ pc = "delete"
    /\ pc' = "return"
    /\ UNCHANGED <<app, stdout, exitStatus, runMode, runIters, heap, trace>>
    /\ UNCHANGED <<buildVars, logVars>>

\* line 17
MainDelete ==
    /\ Running /\ pc = "delete"
    /\ heap' = [heap EXCEPT ![app].state = "deleted", ![app].deletes = @ + 1]
    /\ trace' = Append(trace, "delete")
    /\ pc' = "return"
    /\ UNCHANGED <<app, stdout, exitStatus, runMode, runIters>>
    /\ UNCHANGED <<buildVars, logVars>>

\* variant: main returning 1
MainReturn_One ==
    /\ Running /\ pc = "return"
    /\ exitStatus' = <<1>>
    /\ trace' = Append(trace, "return")
    /\ pc' = "done"
    /\ UNCHANGED <<app, stdout, runMode, runIters, heap>>
    /\ UNCHANGED <<buildVars, logVars>>

\* line 18
MainReturn ==
    /\ Running /\ pc = "return"
    /\ exitStatus' = <<0>>
    /\ trace' = Append(trace, "return")
    /\ pc' = "done"
    /\ UNCHANGED <<app, stdout, runMode, runIters, heap>>
    /\ UNCHANGED <<buildVars, logVars>>

\* ------------------------------------------------ the program as built
RuntimeInit ==
    /\ s_CoreLogger = Null
    /\ s_ClientLogger = Null
    /\ heap = [a \in Addrs |-> FreeCell]
    /\ app = Null
    /\ stdout = <<>>
    /\ exitStatus = <<>>
    /\ runIters = 0
    /\ crashed = FALSE
    /\ ub = FALSE
    /\ lastCall = <<>>
    /\ trace = <<>>

Init ==
    /\ predef \in SUBSET (PlatformMacros \cup BuildMacros)
    /\ targetOsMac \in {<<>>} \cup {<<v>> : v \in 0..MaxTargetOsMac}
    /\ phase = "platform"
    /\ defined = {}
    /\ vernApi = ""
    /\ ppError = NoError
    /\ pc = "init"
    /\ runMode \in {"returns", "diverges"}
    /\ RuntimeInit

Next ==
    \/ DetectPlatform
    \/ DefineApi
    \/ ErrorAbort
    \/ ErrorContinue
    \/ MainLogInit
    \/ MainCoreWarn
    \/ MainClientInfo
    \/ MainCreate
    \/ MainCreateThrows
    \/ MainRun
    \/ RunLoop
    \/ RunReturn
    \/ MainDelete
    \/ MainReturn

Spec == Init /\ [][Next]_vars

\* main is sequential code: whenever a step is possible one is taken
FairSpec == Spec /\ WF_vars(Next)

\* ------------------------------------------- the Log API used by a client
\* the library built for a 64-bit Linux host
HostPredef == {"__linux__"}

ClientLogInit ==
    /\ pc = "client" /\ ~crashed
    /\ s_CoreLogger = Null
    /\ LogInit
    /\ trace' = Append(trace, "Log::Init")
    /\ UNCHANGED mainVars
    /\ UNCHANGED buildVars

ClientLogCall ==
    /\ pc = "client" /\ ~crashed
    /\ Len(SelectSeq(trace, LAMBDA x : x \in Macros)) < MaxLog
    /\ \E m \in Macros : \E msg \in Msgs : LogCall(m, msg)
    /\ UNCHANGED mainVars
    /\ UNCHANGED buildVars

InitLog ==
    /\ predef = HostPredef
    /\ targetOsMac = <<>>
    /\ phase = "compiled"
    /\ defined = PlatformDetect(HostPredef, <<>>).defs \cup {"VERN_API"}
    /\ vernApi = ApiExpand(HostPredef \cup PlatformDetect(HostPredef, <<>>).defs)
    /\ ppError = NoError
    /\ pc = "client"
    /\ runMode = "returns"
    /\ RuntimeInit

NextLog ==
    \/ ClientLogInit
    \/ ClientLogCall

SpecLog == InitLog /\ [][NextLog]_vars

\* ================================================================ claims
SandboxAddrs == {a \in Addrs : heap[a].kind = "Sandbox"}

LoggerAddrs == {a \in Addrs : heap[a].kind = "logger"}

\* positions of main after CreateApplication has returned
AfterCreate == {"run", "in_run", "delete", "return", "done"}

\* the step just taken evaluated a log macro
CallStep ==
    /\ Len(trace') = Len(trace) + 1
    /\ trace'[Len(trace')] \in Macros

CoreMacros == {"VERN_CORE_TRACE", "VERN_CORE_INFO", "VERN_CORE_WARN", "VERN_CORE_ERROR", "VERN_CORE_FATAL"}

ClientMacros == {"VERN_TRACE", "VERN_INFO", "VERN_WARN", "VERN_ERROR", "VERN_FATAL"}

\* the part of a macro's name after the family prefix
SeveritySuffix ==
    [ VERN_CORE_TRACE |-> "TRACE", VERN_CORE_INFO |-> "INFO", VERN_CORE_WARN |-> "WARN",
      VERN_CORE_ERROR |-> "ERROR", VERN_CORE_FATAL |-> "FATAL",
      VERN_TRACE |-> "TRACE", VERN_INFO |-> "INFO", VERN_WARN |-> "WARN",
      VERN_ERROR |-> "ERROR", VERN_FATAL |-> "FATAL" ]

LowerCase ==
    [ TRACE |-> "trace", INFO |-> "info", WARN |-> "warn", ERROR |-> "error", FATAL |-> "fatal" ]

\* the static member behind a macro family
FamilyMember(m) ==
    IF m \in CoreMacros THEN s_CoreLogger ELSE s_ClientLogger

\* ---------------------------------------------------------------- C1
MainOrder ==
    <<"Log::Init", "VERN_CORE_WARN", "VERN_INFO", "CreateApplication", "Application::Run", "delete", "return">>

\* C1: the operations main has executed are always an initial segment of
\* Log::Init, core warn "Log Initialized!", client info "Hello World!",
\* CreateApplication, Run on the created object, delete of it, return:
\* the fixed order, each step at most once, none skipped.
C1_FixedOrder ==
    /\ Len(trace) <= Len(MainOrder)
    /\ trace = SubSeq(MainOrder, 1, Len(trace))
    /\ Len(trace) >= 2 => heap[s_CoreLogger].out = <<[level |-> "warn", msg |-> "Log Initialized!"]>>
    /\ Len(trace) >= 3 => heap[s_ClientLogger].out = <<[level |-> "info", msg |-> "Hello World!"]>>
    /\ Len(trace) >= 5 => heap[app].kind = "Sandbox" /\ heap[app].runs = 1
    /\ Len(trace) >= 6 => heap[app].state = "deleted"
    /\ Len(trace) = 7 <=> pc = "done"

C1_Witness ==
    /\ pc = "done"
    /\ trace = MainOrder

\* ---------------------------------------------------------------- C2
\* C2: a VERN_CORE_* macro writes through the handle getCoreLogger returns
\* (s_CoreLogger) and changes no other object, a VERN_* client macro writes
\* through the handle getClientLogger returns (s_ClientLogger) and changes
\* no other object, and once set the two getters return the handles of two
\* different loggers, the core one and the client one.
C2_GettersApart ==
    /\ getCoreLogger = s_CoreLogger
    /\ getClientLogger = s_ClientLogger
    /\ s_CoreLogger # Null =>
        /\ getCoreLogger # getClientLogger
        /\ heap[getCoreLogger].kind = "logger" /\ heap[getCoreLogger].name = "core"
        /\ heap[getClientLogger].kind = "logger" /\ heap[getClientLogger].name = "client"

C2_CallFrame ==
    CallStep =>
        LET m == trace'[Len(trace')]
            own == FamilyMember(m)
        IN  /\ \A a \in Addrs \ {own} : heap'[a] = heap[a]
            /\ own # Null => Len(heap'[own].out) = Len(heap[own].out) + 1
            /\ s_CoreLogger' = s_CoreLogger /\ s_ClientLogger' = s_ClientLogger

C2_ChannelsIndependent ==
    []C2_GettersApart /\ [][C2_CallFrame]_vars

C2_Witness ==
    /\ s_CoreLogger # Null
    /\ Len(heap[s_CoreLogger].out) = 1
    /\ Len(heap[s_ClientLogger].out) = 1
    /\ lastCall[1] \in CoreMacros

\* ---------------------------------------------------------------- C3
WindowsTarget == {"_WIN32", "_WIN64"} \subseteq predef

AppleTarget == ("__APPLE__" \in predef \/ "__MACH__" \in predef) /\ targetOsMac = <<1>>

LinuxTarget == "__linux__" \in predef

\* C3: whenever the platform block was passed without #error, exactly one
\* VERN_PLATFORM_* macro is defined: WINDOWS if _WIN32 and _WIN64, else
\* MACOS if __APPLE__ or __MACH__ with TARGET_OS_MAC == 1, else LINUX
\* (and then __linux__ is defined).
C3_ExactlyOnePlatform ==
    (phase # "platform" /\ ppError = NoError) =>
        /\ Cardinality(defined \cap VernPlatforms) = 1
        /\ defined \cap VernPlatforms =
             IF WindowsTarget THEN {"VERN_PLATFORM_WINDOWS"}
             ELSE IF AppleTarget THEN {"VERN_PLATFORM_MACOS"}
             ELSE {"VERN_PLATFORM_LINUX"}
        /\ WindowsTarget \/ AppleTarget \/ LinuxTarget

C3_Witness ==
    /\ phase = "compiled"
    /\ {"__APPLE__", "__linux__", "_WIN64"} \subseteq predef
    /\ "VERN_PLATFORM_MACOS" \in defined

\* ---------------------------------------------------------------- C4
\* C4: once the platform block has been evaluated, _WIN32 without _WIN64
\* gives the error "x86 Builds are not supported!" whatever else is
\* defined; without _WIN32, __APPLE__ or __MACH__ with TARGET_OS_MAC not 1
\* gives "Unknown Apple platform!"; none of _WIN32, __APPLE__, __MACH__,
\* __linux__ gives "Unknown platform!"; and a translation unit with an
\* error never counts as compiled and has no VERN_PLATFORM_* macro.
C4_UnsupportedRejected ==
    phase # "platform" =>
        /\ ("_WIN32" \in predef /\ "_WIN64" \notin predef)
              => ppError = "x86 Builds are not supported!"
        /\ ("_WIN32" \notin predef /\ ("__APPLE__" \in predef \/ "__MACH__" \in predef) /\ targetOsMac # <<1>>)
              => ppError = "Unknown Apple platform!"
        /\ (predef \cap {"_WIN32", "__APPLE__", "__MACH__", "__linux__"} = {})
              => ppError = "Unknown platform!"
        /\ ppError # NoError =>
              /\ phase \in {"error", "failed"}
              /\ defined \cap VernPlatforms = {}

C4_Witness ==
    /\ phase = "failed"
    /\ {"_WIN32", "__linux__", "__APPLE__"} \subseteq predef
    /\ ppError = "x86 Builds are not supported!"

\* ---------------------------------------------------------------- C5
\* C5: after Core.h was processed without error VERN_API is defined; it is
\* __declspec(dllexport) exactly when VERN_PLATFORM_WINDOWS and
\* VERN_BUILD_DLL are defined, __declspec(dllimport) exactly when
\* VERN_PLATFORM_WINDOWS is defined and VERN_BUILD_DLL is not, and empty on
\* every other platform whether or not VERN_BUILD_DLL is defined.
C5_VernApi ==
    phase = "compiled" =>
        LET win == "VERN_PLATFORM_WINDOWS" \in defined
            dll == "VERN_BUILD_DLL" \in predef
        IN  /\ "VERN_API" \in defined
            /\ vernApi = "__declspec(dllexport)" <=> (win /\ dll)
            /\ vernApi = "__declspec(dllimport)" <=> (win /\ ~dll)
            /\ ~win => vernApi = ""

C5_Witness ==
    /\ phase = "compiled"
    /\ "VERN_PLATFORM_LINUX" \in defined
    /\ "VERN_BUILD_DLL" \in predef
    /\ vernApi = ""

\* ---------------------------------------------------------------- C6
FactoryCalls == Len(SelectSeq(trace, LAMBDA x : x = "CreateApplication"))

C6_OneObject ==
    /\ FactoryCalls <= 1
    /\ Cardinality(SandboxAddrs) <= 1
    /\ pc \in AfterCreate =>
        /\ FactoryCalls = 1
        /\ SandboxAddrs = {app}
        /\ BaseOf(heap[app].kind) = "Application"
    /\ pc \notin AfterCreate => SandboxAddrs = {} /\ app = Null
    /\ \A a \in Addrs : heap[a].kind \in {"free", "logger", "Sandbox"}

C6_FreshAndSame ==
    /\ (pc = "create" /\ pc' = "run") =>
        /\ heap[app'].kind = "free"
        /\ heap'[app'] = SandboxObj
        /\ \A a \in Addrs \ {app'} : heap'[a] = heap[a]
    /\ pc \in AfterCreate =>
        /\ app' = app
        /\ \A a \in Addrs \ {app} : heap'[a] = heap[a]

\* C6: main calls CreateApplication once; the call returns a Sandbox (an
\* Application) constructed in storage that held no object before; from
\* then on app is that object, it is the only application object, and Run
\* and delete change it and nothing else.
C6_FactoryObject ==
    []C6_OneObject /\ [][C6_FreshAndSame]_vars

C6_Witness ==
    /\ pc = "return"
    /\ heap[app].runs = 1
    /\ heap[app].deletes = 1
    /\ Cardinality(LoggerAddrs) = 2

\* ---------------------------------------------------------------- C7
C7_Lifetime ==
    \A a \in SandboxAddrs :
        /\ heap[a].deletes <= 1
        /\ heap[a].runs <= 1
        /\ heap[a].state = "deleted" <=> heap[a].deletes = 1
        /\ heap[a].deletes = 1 => (heap[a].runs = 1 /\ pc \in {"return", "done"})
        /\ pc \in {"return", "done"} => heap[a].state = "deleted"

C7_Step ==
    /\ pc' = "delete" => (pc = "delete" \/ (pc = "in_run" /\ runMode = "returns"))
    /\ \A a \in SandboxAddrs :
        /\ heap'[a].deletes # heap[a].deletes => pc = "delete"
        /\ heap[a].state = "deleted" => heap'[a] = heap[a]

\* C7: the application object is deleted at most once, only from the
\* position main reaches when Run has returned, a deleted object is never
\* touched again, and when main has passed line 17 the object it created
\* has been deleted.
C7_LifetimeSafety ==
    []C7_Lifetime /\ [][C7_Step]_vars

C7_Witness ==
    /\ pc = "done"
    /\ heap[app].state = "deleted"
    /\ heap[app].deletes = 1

\* ---------------------------------------------------------------- C8
\* C8: main never dereferences an empty logger handle: whenever main is
\* past line 11 both static handles refer to loggers, every macro main has
\* evaluated came after Log::Init, and the client's constructor has only
\* printed after Log::Init.
C8_InitBeforeUse ==
    /\ ~ub /\ ~crashed
    /\ pc # "init" =>
        /\ s_CoreLogger \in LoggerAddrs
        /\ s_ClientLogger \in LoggerAddrs
    /\ (trace # <<>> \/ stdout # <<>>) => trace[1] = "Log::Init"
    /\ \A a \in LoggerAddrs : heap[a].out # <<>> => a \in {getCoreLogger, getClientLogger}

C8_Witness ==
    /\ pc = "run"
    /\ stdout # <<>>
    /\ lastCall = <<"VERN_INFO", "Hello World!">>
    /\ heap[s_CoreLogger].out # <<>>
    /\ heap[s_ClientLogger].out # <<>>

\* ---------------------------------------------------------------- C9
C9_Exit ==
    /\ runMode = "diverges" => (pc \notin {"delete", "return", "done"} /\ exitStatus = <<>>)
    /\ exitStatus # <<>> <=> pc = "done"
    /\ pc = "done" => (exitStatus = <<0>> /\ heap[app].state = "deleted")

\* C9: when CreateApplication has returned and Run is one that returns,
\* main eventually returns with exit status 0 and the application deleted;
\* when Run is one that does not return, main never reaches delete or
\* return and no exit status is produced.
C9_Termination ==
    /\ (pc = "run" /\ runMode = "returns") ~> (pc = "done" /\ exitStatus = <<0>> /\ heap[app].state = "deleted")
    /\ []C9_Exit

C9_Witness ==
    /\ pc = "done"
    /\ exitStatus = <<0>>
    /\ runMode = "returns"

\* ---------------------------------------------------------------- C10
C10_Forward ==
    (CallStep /\ FamilyMember(trace'[Len(trace')]) # Null) =>
        LET m == trace'[Len(trace')]
            own == FamilyMember(m)
        IN  /\ lastCall'[1] = m
            /\ heap'[own].out = Append(heap[own].out, [level |-> LowerCase[SeveritySuffix[m]], msg |-> lastCall'[2]])
            /\ \A a \in Addrs \ {own} : heap'[a] = heap[a]

\* C10: evaluating any of the ten macros with an initialised handle adds
\* exactly one record to its family's logger, with the argument unchanged
\* and the level equal to the macro's severity suffix in lower case.
C10_SeverityForwarding ==
    [][C10_Forward]_vars

C10_Witness ==
    /\ s_ClientLogger # Null
    /\ lastCall = <<"VERN_FATAL", "Hello World!">>
    /\ Len(heap[s_ClientLogger].out) = 2
    /\ heap[s_ClientLogger].out[2].level = "fatal"
    /\ heap[s_ClientLogger].out[1].level = "error"

====
